---- MODULE Spec2Model ----
(***************************************************************************)
(* Model of deerlab/fitregmodel.py: the regularized fit fitregmodel, the   *)
(* penalty augmentation _augment and the Osher-Bregman iteration _obir.    *)
(*                                                                         *)
(* Real numbers are exact rationals [n, d] with d >= 0; d = 0 encodes the  *)
(* IEEE results of a division by zero: n > 0 is +inf, n < 0 is -inf and    *)
(* n = 0 is NaN.  A standard deviation is never computed: np.std(x) is     *)
(* compared through N^2 * var(x) = N*sum(x^2) - sum(x)^2.                  *)
(***************************************************************************)
EXTENDS Integers, Sequences, FiniteSets, TLC

\* ------------------------------------------------------------------ bounds
\* Largest entry an NNLS solver returns in the model.
PMax == 1
\* Largest value of the warmup counter of _obir (caps the alpha inflation).
MaxCounter == 3
\* Iteration cap of _obir, scaled down from the 5000 of fitregmodel.py:239.
MaxOuterIter == 2
\* Largest standard error hccm/uqst produce in the model.
SigMax == 1

\* --------------------------------------------------------- integer helpers
Abs(x) == IF x < 0 THEN -x ELSE x

Sign(x) == IF x > 0 THEN 1 ELSE IF x < 0 THEN -1 ELSE 0

RECURSIVE GCD(_, _)
GCD(a, b) == IF b = 0 THEN a ELSE GCD(b, a % b)

RECURSIVE SumTo(_, _)
\* sum of f[1..n], the accumulation of np.sum / a dot product
SumTo(f, n) == IF n = 0 THEN 0 ELSE f[n] + SumTo(f, n - 1)

RECURSIVE Pow2(_)
Pow2(k) == IF k = 0 THEN 1 ELSE 2 * Pow2(k - 1)

\* ------------------------------------------------------------ float values
QNorm(n, d) ==
    IF d = 0 THEN [n |-> Sign(n), d |-> 0]
    ELSE LET g == GCD(Abs(n), d) IN [n |-> n \div g, d |-> d \div g]

Q(n, d) == IF d < 0 THEN QNorm(-n, -d) ELSE QNorm(n, d)

QInt(k) == [n |-> k, d |-> 1]

NaN == [n |-> 0, d |-> 0]

IsNaN(a) == a.n = 0 /\ a.d = 0

IsFinite(a) == a.d > 0

QAdd(a, b) ==
    IF a.d = 0 /\ b.d = 0 THEN (IF a.n = b.n THEN a ELSE NaN)
    ELSE Q(a.n * b.d + b.n * a.d, a.d * b.d)

QNeg(a) == [n |-> -a.n, d |-> a.d]

QSub(a, b) == QAdd(a, QNeg(b))

QMul(a, b) == Q(a.n * b.n, a.d * b.d)

\* a / b as numpy divides: x/0 is +-inf, 0/0 is nan
QDiv(a, b) == Q(a.n * b.d, a.d * b.n)

\* a <= b; every comparison with NaN is false
QLe(a, b) ==
    /\ ~IsNaN(a)
    /\ ~IsNaN(b)
    /\ IF a.d = 0 /\ b.d = 0 THEN a.n <= b.n ELSE a.n * b.d <= b.n * a.d

QMax(a, b) == IF QLe(a, b) THEN b ELSE a

QMin(a, b) == IF QLe(a, b) THEN a ELSE b

QVec(x) == [i \in DOMAIN x |-> QInt(x[i])]

RECURSIVE QSumTo(_, _)
QSumTo(f, n) == IF n = 0 THEN QInt(0) ELSE QAdd(QSumTo(f, n - 1), f[n])

\* ------------------------------------------------------------ linear algebra
\* A @ x for an integer matrix (sequence of rows) and an integer vector
MatVec(A, x) == [i \in DOMAIN A |-> SumTo([j \in DOMAIN x |-> A[i][j] * x[j]], Len(x))]

\* A @ x for an integer matrix and a vector of floats
QMatVec(A, x) ==
    [i \in DOMAIN A |-> QSumTo([j \in DOMAIN x |-> QMul(QInt(A[i][j]), x[j])], Len(x))]

\* A.T
Transpose(A) == [j \in DOMAIN A[1] |-> [i \in DOMAIN A |-> A[i][j]]]

\* A @ B
MatMul(A, B) ==
    [i \in DOMAIN A |->
        [j \in DOMAIN B[1] |-> SumTo([k \in DOMAIN B |-> A[i][k] * B[k][j]], Len(B))]]

VecSub(x, y) == [i \in DOMAIN x |-> x[i] - y[i]]

VecAdd(x, y) == [i \in DOMAIN x |-> x[i] + y[i]]

\* weights * K.T : column i of K.T (sample i) is scaled by weights[i]
WeightedT(w, A) == [j \in DOMAIN A[1] |-> [i \in DOMAIN A |-> w[i] * A[i][j]]]

Zeros(n) == [i \in 1..n |-> 0]

\* N^2 * np.std(x)^2
VarN2(x) ==
    LET n == Len(x) IN
    n * SumTo([i \in DOMAIN x |-> x[i] * x[i]], n) - SumTo(x, n) * SumTo(x, n)

\* np.std(x) < np.std(y), both of the same length
StdLess(x, y) == VarN2(x) < VarN2(y)

\* variant: aim >= np.std(x)
AimAboveStd_ge(aim, x) == aim >= 0 /\ aim * aim * Len(x) * Len(x) >= VarN2(x)

\* aim > np.std(x)
AimAboveStd(aim, x) == aim > 0 /\ aim * aim * Len(x) * Len(x) > VarN2(x)


\* ------------------------------------------------------------------- state
VARIABLES
    pc,            \* position in fitregmodel / _obir
    V, K, r, weights, subsets,      \* data as parse_multidatasets returns it
    regtype, alpha, solver, nonnegativity, obir,
    uqanalysis, renormalize, noiselevelaim,   \* remaining arguments
    L, problem, KtKreg, KtV,        \* locals of fitregmodel
    Pfit, res, J, covmat, Puq, Puq_, Pnorm, stats,
    ret,           \* value returned to the caller
    err,           \* exception raised to the caller
    called,        \* collaborators invoked so far
    ob             \* locals of the running _obir call

vars == <<pc, V, K, r, weights, subsets, regtype, alpha, solver, nonnegativity,
          obir, uqanalysis, renormalize, noiselevelaim, L, problem, KtKreg, KtV,
          Pfit, res, J, covmat, Puq, Puq_, Pnorm, stats, ret, err, called, ob>>

args == <<V, K, r, weights, subsets, regtype, solver, nonnegativity, obir,
          uqanalysis, renormalize, noiselevelaim>>

\* -------------------------------------------------------------- input sets
\* Signals and kernels after parse_multidatasets: one dataset of two samples,
\* or two datasets of one sample each with different weights.  <<1, 0>> is
\* the noiseless signal K@<<1, 0>>; <<0, -3>> has the NNLS solution zero and
\* an unconstrained solution of negative area.
Datasets ==
    { [V |-> v, K |-> <<<<1, 0>>, <<0, 1>>>>, weights |-> s.w, subsets |-> s.sub] :
        v \in {<<1, 0>>, <<0, -3>>},
        s \in { [w |-> <<1, 1>>, sub |-> << {1, 2} >>],
                [w |-> <<1, 2>>, sub |-> << {1}, {2} >>] } }

SolverArgs == {"fnnls", "nnlsbpp", "cvx", "lsq"}

RegtypeArgs == {"tikhonov", "tv", "huber", "l1"}

\* alpha argument: a selection criterion (str) or a number
AlphaArgs == { [type |-> "str", val |-> 0], [type |-> "float", val |-> 1] }

\* noiselevelaim argument: -1 (automatic), or a noise level
NoiseArgs == {-1, 0, 1}

\* ------------------------------------------------------ external collaborators
\* dl.regoperator: first-order difference operator on the axis rr
regoperator(rr) ==
    [i \in 1..(Len(rr) - 1) |->
        [j \in 1..Len(rr) |-> IF j = i THEN -1 ELSE IF j = i + 1 THEN 1 ELSE 0]]

\* dl.selregparam: the selected regularization parameter, positive
selregparam == {2}

\* dl.noiselevel: noise level estimated from the signal
noiselevel(VV) == IF VarN2(VV) > 0 THEN 1 ELSE 0

\* dl.lsqcomponents: KtKreg = (weights*K.T)@K + alpha^2 * L.T@L, KtV = (weights*K.T)@V
lsqcomponents(VV, KK, LL, a, w) ==
    LET KtK == MatMul(WeightedT(w, KK), KK)
        LtL == MatMul(Transpose(LL), LL)
    IN  [KtKreg |-> [i \in DOMAIN KtK |-> [j \in DOMAIN KtK |-> KtK[i][j] + a * a * LtL[i][j]]],
         KtV    |-> MatVec(WeightedT(w, KK), VV)]

\* fnnls / nnlsbpp / cvxnnls: (A, b) -> some x >= 0
nnls(A, b) == [DOMAIN b -> 0..PMax]

\* hccm: some covariance matrix (diagonal, equal variances)
hccm(n) == { [i \in 1..n |-> [j \in 1..n |-> IF i = j THEN s * s ELSE 0]] : s \in 0..SigMax }

Det2(A) == A[1][1] * A[2][2] - A[1][2] * A[2][1]

\* np.linalg.solve for a 2x2 system (Cramer); det = 0 raises LinAlgError
linalg_solve(A, b) ==
    << Q(b[1] * A[2][2] - A[1][2] * b[2], Det2(A)),
       Q(A[1][1] * b[2] - A[2][1] * b[1], Det2(A)) >>

\* np.linalg.pinv of a symmetric 2x2 matrix: the inverse, or for a singular
\* matrix A/(tr A)^2 (rank one) or zero (rank zero)
linalg_pinv(A) ==
    LET d == Det2(A)
        t == A[1][1] + A[2][2]
    IN  IF d # 0
        THEN << << Q(A[2][2], d), Q(-A[1][2], d) >>, << Q(-A[2][1], d), Q(A[1][1], d) >> >>
        ELSE IF t # 0
        THEN [i \in 1..2 |-> [j \in 1..2 |-> Q(A[i][j], t * t)]]
        ELSE [i \in 1..2 |-> [j \in 1..2 |-> QInt(0)]]

\* np.trapz(P, r)
trapz(P, rr) ==
    QSumTo([i \in 1..(Len(rr) - 1) |->
              QMul(QAdd(P[i], P[i + 1]), Q(rr[i + 1] - rr[i], 2))], Len(rr) - 1)


\* --------------------------------------------------------------------- _obir
KnownSolvers == {"fnnls", "nnlsbpp", "cvx"}

\* collaborators a solver dispatch invokes (nnlsbpp is given the direct
\* solve np.linalg.solve(KtKreg, KtV) as its starting guess)
solver_calls(s) ==
    IF s = "fnnls" THEN {"fnnls"}
    ELSE IF s = "nnlsbpp" THEN {"linalg.solve", "nnlsbpp"}
    ELSE IF s = "cvx" THEN {"cvxnnls"}
    ELSE {}

stopDivergent == FALSE

\* no _obir call is running
NoFrame ==
    [active |-> FALSE, noiselevelaim |-> 0, alpha |-> 0, subGrad |-> <<>>,
     Counter |-> 0, Iteration |-> 0, Pfit |-> <<>>, Pprev |-> <<>>,
     KtKreg |-> <<>>, KtV |-> <<>>, KtVsg |-> <<>>,
     diverged |-> FALSE, semiconverged |-> FALSE, exit |-> "none", nsolves |-> 0]

\* locals of _obir at the head of the loop, first time
obir_init(VV, KK, LL, a, w, aim) ==
    LET c == lsqcomponents(VV, KK, LL, a, w) IN
    [active |-> TRUE, noiselevelaim |-> aim, alpha |-> a,
     subGrad |-> Zeros(Len(LL[1])), Counter |-> 1, Iteration |-> 1,
     Pfit |-> Zeros(Len(LL[1])), Pprev |-> <<>>,
     KtKreg |-> c.KtKreg, KtV |-> c.KtV, KtVsg |-> <<>>,
     diverged |-> FALSE, semiconverged |-> FALSE, exit |-> "none", nsolves |-> 0]

\* variant: the accumulator keeps only the latest term
obir_update_latest(f, x, VV, KK, w) ==
    [f EXCEPT !.Pprev = f.Pfit,
              !.KtVsg = VecSub(f.KtV, f.subGrad),
              !.Pfit = x,
              !.subGrad = MatVec(WeightedT(w, KK), VecSub(MatVec(KK, x), VV)),
              !.nsolves = f.nsolves + 1]

\* the solve of one Bregman iteration and the subgradient update; x is the
\* solver's answer to (KtKreg, KtV - subGrad)
obir_update(f, x, VV, KK, w) ==
    [f EXCEPT !.Pprev = f.Pfit,
              !.KtVsg = VecSub(f.KtV, f.subGrad),
              !.Pfit = x,
              !.subGrad = VecAdd(f.subGrad, MatVec(WeightedT(w, KK), VecSub(MatVec(KK, x), VV))),
              !.nsolves = f.nsolves + 1]

\* the first-iteration test: the residual is already below the noise level
oversmooth(f, VV, KK) == AimAboveStd(f.noiselevelaim, VecSub(MatVec(KK, f.Pfit), VV))

\* variant: alpha is doubled whatever the counter
obir_warmup_double(f, VV, KK, LL, w) ==
    IF oversmooth(f, VV, KK)
    THEN LET a == f.alpha * 2
             c == lsqcomponents(VV, KK, LL, a, w)
         IN  [f EXCEPT !.alpha = a, !.Counter = f.Counter + 1,
                       !.KtKreg = c.KtKreg, !.KtV = c.KtV]
    ELSE [f EXCEPT !.Iteration = f.Iteration + 1]

\* iteration control at Iteration == 1
obir_warmup(f, VV, KK, LL, w) ==
    IF oversmooth(f, VV, KK)
    THEN LET a == f.alpha * Pow2(f.Counter)
             c == lsqcomponents(VV, KK, LL, a, w)
         IN  [f EXCEPT !.alpha = a, !.Counter = f.Counter + 1,
                       !.KtKreg = c.KtKreg, !.KtV = c.KtV]
    ELSE [f EXCEPT !.Iteration = f.Iteration + 1]

\* variant: semi-convergence hands back the previous distribution
obir_refine_stale(f, VV, KK) ==
    LET div  == StdLess(VecSub(MatVec(KK, f.Pprev), VV), VecSub(MatVec(KK, f.Pfit), VV))
        semi == AimAboveStd(f.noiselevelaim, VecSub(MatVec(KK, f.Pfit), VV))
        g    == [f EXCEPT !.diverged = div, !.semiconverged = semi]
    IN  IF semi
        THEN [g EXCEPT !.Pfit = f.Pprev, !.exit = "semiconverged"]
        ELSE IF stopDivergent /\ div
        THEN [g EXCEPT !.Iteration = f.Iteration + 1, !.Pfit = f.Pprev, !.exit = "diverged"]
        ELSE [g EXCEPT !.Iteration = f.Iteration + 1]

\* iteration control at Iteration > 1
obir_refine(f, VV, KK) ==
    LET div  == StdLess(VecSub(MatVec(KK, f.Pprev), VV), VecSub(MatVec(KK, f.Pfit), VV))
        semi == AimAboveStd(f.noiselevelaim, VecSub(MatVec(KK, f.Pfit), VV))
        g    == [f EXCEPT !.diverged = div, !.semiconverged = semi]
    IN  IF semi
        THEN [g EXCEPT !.exit = "semiconverged"]
        ELSE IF stopDivergent /\ div
        THEN [g EXCEPT !.Iteration = f.Iteration + 1, !.Pfit = f.Pprev, !.exit = "diverged"]
        ELSE [g EXCEPT !.Iteration = f.Iteration + 1]

\* one pass through the body of the while loop
obir_body(f, x, VV, KK, LL, w) ==
    LET g == obir_update(f, x, VV, KK, w) IN
    IF f.Iteration = 1 THEN obir_warmup(g, VV, KK, LL, w) ELSE obir_refine(g, VV, KK)

\* variant: the loop stops one iteration early
obir_looping_early(f) == f.active /\ f.exit = "none" /\ f.Iteration < MaxOuterIter

\* the while condition holds and no break was taken
obir_looping(f) == f.active /\ f.exit = "none" /\ f.Iteration <= MaxOuterIter


\* --------------------------------------------------------------- fitregmodel
\* Determine the type of problem to solve
classify(o, nn) == IF o THEN "obir" ELSE IF nn THEN "nnls" ELSE "unconstrained"

NoErr == [type |-> "none", names |-> ""]

KeyError(s) == [type |-> "KeyError", names |-> s]

\* weights * x for a vector of samples x
WeightVec(w, x) == [i \in DOMAIN x |-> QMul(QInt(w[i]), x[i])]

\* weights * K
WeightRows(w, A) == [i \in DOMAIN A |-> [j \in DOMAIN A[i] |-> w[i] * A[i][j]]]

\* regtype is 'literal': equal strings are the same object only when the
\* caller's string is interned
is_literal(rt, lit, interned) == rt = lit /\ interned

\* _augment: penalty residual and Jacobian, scaled by alpha and stacked under
\* the data parts.  The penalty terms stay symbolic: f names the functional,
\* LP is L@P.  No branch taken leaves resreg unbound.
_augment(rs, Jr, rt, a, LL, P, interned) ==
    LET LP == QMatVec(LL, P)
        f  == IF is_literal(rt, "tikhonov", interned) THEN "tikhonov"
              ELSE IF is_literal(rt, "tv", interned) THEN "tv"
              ELSE IF is_literal(rt, "huber", interned) THEN "huber"
              ELSE "unbound"
    IN  [bound |-> f # "unbound",
         res   |-> [data |-> rs, penalty |-> [f |-> f, alpha |-> a, LP |-> LP]],
         J     |-> [data |-> Jr, penalty |-> [f |-> f, alpha |-> a, L |-> LL, LP |-> LP]]]

Isqrt(x) == CHOOSE k \in 0..x : k * k = x

\* the bound method uqst.ci
MethodCi == [kind |-> "method", ref |-> "", Pnorm |-> NaN]

\* uqst('covariance', parfit, covmat, lb, ub)
uqst(parfit, cov, lb, ub) ==
    [type |-> "covariance", mean |-> parfit, covmat |-> cov,
     std |-> [i \in DOMAIN parfit |-> Isqrt(cov[i][i])],
     lb |-> lb, ub |-> ub, ci |-> MethodCi]

\* Puq = []
EmptyList == [type |-> "list"]

Unset == [type |-> "unset"]

\* quantile factor of a coverage percentage
zscore(p) == IF p >= 95 THEN 2 ELSE 1

Coverages == {50, 95}

\* uqst.ci(p) of a covariance structure: mean -/+ z*std clipped to lb and ub
\* (an empty ub is no upper bound)
uqst_ci(u, p) ==
    [i \in DOMAIN u.mean |->
        LET lo == QSub(u.mean[i], QInt(zscore(p) * u.std[i]))
            hi == QAdd(u.mean[i], QInt(zscore(p) * u.std[i]))
        IN  << QMax(u.lb[i], lo), IF u.ub = <<>> THEN hi ELSE QMin(u.ub[i], hi) >>]

\* ci / Pnorm
ci_div(c, n) == [i \in DOMAIN c |-> << QDiv(c[i][1], n), QDiv(c[i][2], n) >>]

\* Pfit / Pnorm
renorm(P, n) == [i \in DOMAIN P |-> QDiv(P[i], n)]

\* variant: the closure reads the live structure, lambda p: Puq.ci(p)/Pnorm
rebind_live(u, n) == [u EXCEPT !.ci = [kind |-> "lambda", ref |-> "Puq", Pnorm |-> n]]

\* the closure lambda p: Puq_.ci(p)/Pnorm
rebind(u, n) == [u EXCEPT !.ci = [kind |-> "lambda", ref |-> "Puq_", Pnorm |-> n]]

\* K @ pinv(KtKreg) @ K.T
hat(KK, A) ==
    LET Ai == linalg_pinv(A) IN
    [i \in DOMAIN KK |-> [j \in DOMAIN KK |->
        QSumTo([k \in 1..Len(KK[1]) |->
            QMul(QInt(KK[i][k]), QSumTo([l \in 1..Len(KK[1]) |->
                QMul(Ai[k][l], QInt(KK[j][l]))], Len(KK[1])))], Len(KK[1]))]]

\* np.trace(H)
trace(H) == QSumTo([i \in DOMAIN H |-> H[i][i]], Len(H))

\* x[subset]
Nth(S, i) == CHOOSE e \in S : Cardinality({z \in S : z < e}) = i - 1

Take(x, S) == [i \in 1..Cardinality(S) |-> x[Nth(S, i)]]

\* degrees of freedom handed to goodness_of_fit for one subset
Ndof(VV, subset, H) == QSub(QInt(Len(Take(VV, subset))), trace(H))

\* the stats list, and its collapse when there is one dataset
goodness(VV, Vfit, subs, H) ==
    LET items == [k \in DOMAIN subs |->
                    [V |-> Take(VV, subs[k]), Vfit |-> Take(Vfit, subs[k]),
                     Ndof |-> Ndof(VV, subs[k], H)]]
    IN  [collapsed |-> Len(items) = 1, items |-> items]


\* calling u.ci(p) on the object named name, where live is the object Puq
\* and snap the object Puq_.  raw counts evaluations of the method uqst.ci,
\* rebound counts invocations of the closure; a closure chain longer than
\* the number of objects never ends (RecursionError).
RECURSIVE ci_call(_, _, _, _, _)
ci_call(name, p, live, snap, fuel) ==
    LET u == IF name = "Puq" THEN live ELSE snap IN
    IF u.ci.kind = "method"
    THEN [ok |-> TRUE, val |-> uqst_ci(u, p), raw |-> 1, rebound |-> 0]
    ELSE IF fuel = 0
    THEN [ok |-> FALSE, val |-> <<>>, raw |-> 0, rebound |-> 1]
    ELSE LET in == ci_call(u.ci.ref, p, live, snap, fuel - 1) IN
         [ok |-> in.ok,
          val |-> IF in.ok THEN ci_div(in.val, u.ci.Pnorm) ELSE <<>>,
          raw |-> in.raw, rebound |-> in.rebound + 1]

\* Puq.ci(p) as the caller of fitregmodel evaluates it
ci(p) == ci_call("Puq", p, Puq, Puq_, Cardinality({"Puq", "Puq_"}))

\* -------------------------------------------------------------------- Init
Init ==
    /\ pc = "start"
    /\ \E d \in Datasets :
        /\ V = d.V
        /\ K = d.K
        /\ weights = d.weights
        /\ subsets = d.subsets
    /\ r = <<2, 4>>
    /\ regtype \in RegtypeArgs
    /\ alpha \in AlphaArgs
    /\ solver \in SolverArgs
    /\ nonnegativity \in BOOLEAN
    /\ obir \in BOOLEAN
    /\ uqanalysis \in BOOLEAN
    /\ renormalize \in BOOLEAN
    /\ noiselevelaim \in NoiseArgs
    /\ L = <<>>
    /\ problem = ""
    /\ KtKreg = <<>>
    /\ KtV = <<>>
    /\ Pfit = <<>>
    /\ res = Unset
    /\ J = Unset
    /\ covmat = <<>>
    /\ Puq = Unset
    /\ Puq_ = Unset
    /\ Pnorm = NaN
    /\ stats = Unset
    /\ ret = Unset
    /\ err = NoErr
    /\ called = {}
    /\ ob = NoFrame

\* ----------------------------------------------------------------- actions
\* lines 92-103: parse the datasets, build L, classify the problem
Prepare ==
    /\ pc = "start"
    /\ called' = called \cup {"parse_multidatasets", "regoperator"}
    /\ L' = regoperator(r)
    /\ problem' = classify(obir, nonnegativity)
    /\ pc' = "alpha"
    /\ UNCHANGED <<args, alpha, KtKreg, KtV, Pfit, res, J, covmat, Puq, Puq_,
                   Pnorm, stats, ret, err, ob>>

\* lines 105-107: a criterion name is replaced by the selected alpha
SelectAlpha ==
    /\ pc = "alpha"
    /\ IF alpha.type = "str"
       THEN /\ \E a \in selregparam : alpha' = [type |-> "float", val |-> a]
            /\ called' = called \cup {"selregparam"}
       ELSE UNCHANGED <<alpha, called>>
    /\ pc' = "assemble"
    /\ UNCHANGED <<args, L, problem, KtKreg, KtV, Pfit, res, J, covmat, Puq, Puq_,
                   Pnorm, stats, ret, err, ob>>

\* lines 109-110: components of the LSQ problem
Assemble ==
    /\ pc = "assemble"
    /\ LET c == lsqcomponents(V, K, L, alpha.val, weights) IN
        /\ KtKreg' = c.KtKreg
        /\ KtV' = c.KtV
    /\ called' = called \cup {"lsqcomponents"}
    /\ pc' = "solve"
    /\ UNCHANGED <<args, alpha, L, problem, Pfit, res, J, covmat, Puq, Puq_,
                   Pnorm, stats, ret, err, ob>>

\* lines 112-129 (and 236-258 when _obir is entered): dispatch on the problem
Solve ==
    /\ pc = "solve"
    /\ IF problem = "unconstrained"
       THEN /\ called' = called \cup {"linalg.solve"}
            /\ IF Det2(KtKreg) = 0
               THEN /\ err' = [type |-> "LinAlgError", names |-> ""]
                    /\ pc' = "error"
                    /\ UNCHANGED Pfit
               ELSE /\ Pfit' = linalg_solve(KtKreg, KtV)
                    /\ pc' = "uq"
                    /\ UNCHANGED err
            /\ UNCHANGED ob
       ELSE IF problem = "obir"
       THEN /\ LET aim == IF noiselevelaim = -1 THEN noiselevel(V) ELSE noiselevelaim
               IN  ob' = obir_init(V, K, L, alpha.val, weights, aim)
            /\ called' = called \cup {"lsqcomponents"}
                            \cup (IF noiselevelaim = -1 THEN {"noiselevel"} ELSE {})
            /\ pc' = "obir"
            /\ UNCHANGED <<Pfit, err>>
       ELSE IF solver \in KnownSolvers
       THEN /\ \E x \in nnls(KtKreg, KtV) : Pfit' = QVec(x)
            /\ called' = called \cup solver_calls(solver)
            /\ pc' = "uq"
            /\ UNCHANGED <<err, ob>>
       ELSE /\ err' = KeyError(solver)
            /\ pc' = "error"
            /\ UNCHANGED <<Pfit, called, ob>>
    /\ UNCHANGED <<args, alpha, L, problem, KtKreg, KtV, res, J, covmat, Puq, Puq_,
                   Pnorm, stats, ret>>

\* lines 260-310: one pass through the loop of _obir.  The alpha inflation
\* is explored up to Counter = MaxCounter.
ObirIterate ==
    /\ pc = "obir"
    /\ obir_looping(ob)
    /\ IF solver \in KnownSolvers
       THEN /\ \E x \in nnls(ob.KtKreg, VecSub(ob.KtV, ob.subGrad)) :
                LET f == obir_body(ob, x, V, K, L, weights) IN
                /\ f.Counter <= MaxCounter
                /\ ob' = f
                /\ called' = called \cup solver_calls(solver)
                                \cup (IF f.Counter # ob.Counter THEN {"lsqcomponents"} ELSE {})
            /\ UNCHANGED <<pc, err>>
       ELSE /\ err' = KeyError(solver)
            /\ pc' = "error"
            /\ ob' = NoFrame
            /\ UNCHANGED called
    /\ UNCHANGED <<args, alpha, L, problem, KtKreg, KtV, Pfit, res, J, covmat, Puq,
                   Puq_, Pnorm, stats, ret>>

\* variant: the inflated alpha and its normal equations reach fitregmodel
ObirReturn_leak ==
    /\ pc = "obir"
    /\ ~obir_looping(ob)
    /\ Pfit' = QVec(ob.Pfit)
    /\ alpha' = [alpha EXCEPT !.val = ob.alpha]
    /\ KtKreg' = ob.KtKreg
    /\ KtV' = ob.KtV
    /\ ob' = [NoFrame EXCEPT !.exit = IF ob.exit = "none" THEN "cap" ELSE ob.exit,
                             !.alpha = ob.alpha, !.KtKreg = ob.KtKreg]
    /\ pc' = "uq"
    /\ UNCHANGED <<args, L, problem, res, J, covmat, Puq, Puq_,
                   Pnorm, stats, ret, err, called>>

\* line 312 and line 118: the loop has ended, Pfit = _obir(...)
ObirReturn ==
    /\ pc = "obir"
    /\ ~obir_looping(ob)
    /\ Pfit' = QVec(ob.Pfit)
    /\ ob' = [NoFrame EXCEPT !.exit = IF ob.exit = "none" THEN "cap" ELSE ob.exit,
                             !.alpha = ob.alpha, !.KtKreg = ob.KtKreg]
    /\ pc' = "uq"
    /\ UNCHANGED <<args, alpha, L, problem, KtKreg, KtV, res, J, covmat, Puq, Puq_,
                   Pnorm, stats, ret, err, called>>

\* lines 131-148: covariance-based uncertainty of Pfit
Uncertainty ==
    /\ pc = "uq"
    /\ IF uqanalysis
       THEN \E interned \in BOOLEAN :
            LET rs  == WeightVec(weights, [i \in DOMAIN V |->
                           QSub(QInt(V[i]), QMatVec(K, Pfit)[i])])
                aug == _augment(rs, WeightRows(weights, K), regtype, alpha.val, L, Pfit, interned)
            IN  IF aug.bound
                THEN /\ res' = aug.res
                     /\ J' = aug.J
                     /\ \E c \in hccm(Len(r)) :
                          /\ covmat' = c
                          /\ Puq' = uqst(Pfit, c, QVec(Zeros(Len(r))), <<>>)
                     /\ called' = called \cup {"hccm", "uqst"}
                     /\ pc' = "renorm"
                     /\ UNCHANGED err
                ELSE /\ err' = [type |-> "UnboundLocalError", names |-> "resreg"]
                     /\ pc' = "error"
                     /\ UNCHANGED <<res, J, covmat, Puq, called>>
       ELSE /\ Puq' = EmptyList
            /\ pc' = "renorm"
            /\ UNCHANGED <<res, J, covmat, err, called>>
    /\ UNCHANGED <<args, alpha, L, problem, KtKreg, KtV, Pfit, Puq_, Pnorm, stats, ret, ob>>

\* lines 150-157: unit area, and the rebinding of Puq.ci
Renormalize ==
    /\ pc = "renorm"
    /\ IF renormalize
       THEN /\ Pnorm' = trapz(Pfit, r)
            /\ Pfit' = renorm(Pfit, Pnorm')
            /\ IF uqanalysis
               THEN /\ Puq_' = Puq
                    /\ Puq' = rebind(Puq, Pnorm')
               ELSE UNCHANGED <<Puq, Puq_>>
       ELSE UNCHANGED <<Pnorm, Pfit, Puq, Puq_>>
    /\ pc' = "gof"
    /\ UNCHANGED <<args, alpha, L, problem, KtKreg, KtV, res, J, covmat, stats, ret,
                   err, called, ob>>

\* lines 160-175: goodness of fit per subset, and the return
GoodnessOfFit ==
    /\ pc = "gof"
    /\ stats' = goodness(V, QMatVec(K, Pfit), subsets, hat(K, KtKreg))
    /\ \E full_output \in BOOLEAN :
         ret' = [type |-> "tuple", Pfit |-> Pfit, Puq |-> Puq, full |-> full_output,
                 stats |-> IF full_output THEN stats' ELSE Unset]
    /\ called' = called \cup {"linalg.pinv", "goodness_of_fit"}
    /\ pc' = "done"
    /\ UNCHANGED <<args, alpha, L, problem, KtKreg, KtV, Pfit, res, J, covmat, Puq,
                   Puq_, Pnorm, err, ob>>

Next ==
    \/ Prepare
    \/ SelectAlpha
    \/ Assemble
    \/ Solve
    \/ ObirIterate
    \/ ObirReturn
    \/ Uncertainty
    \/ Renormalize
    \/ GoodnessOfFit

Spec == Init /\ [][Next]_vars


\* ------------------------------------------------------------------ claims
BadSolver == solver \notin KnownSolvers

KnownRegtypes == {"tikhonov", "tv", "huber"}

NumericWork ==
    {"selregparam", "lsqcomponents", "linalg.solve", "fnnls", "nnlsbpp", "cvxnnls", "hccm"}

\* C1: for every combination of nonnegativity and obir, a solver outside
\* {'fnnls', 'nnlsbpp', 'cvx'} ends in a KeyError naming the solver, and no
\* fitted P is ever produced or returned.
C1_UnknownSolverRaises ==
    BadSolver =>
        /\ Pfit = <<>>
        /\ ret = Unset
        /\ pc = "error" => err = KeyError(solver)

\* C2: with an unrecognized solver or regtype no numeric collaborator
\* (selregparam, lsqcomponents, a direct solve, an NNLS solver, hccm) is
\* called before the error, and the error names the offending value.
C2_FailFast ==
    (BadSolver \/ regtype \notin KnownRegtypes) =>
        /\ called \cap NumericWork = {}
        /\ pc = "error" => err.names \in {solver, regtype}

\* C3: the number of NNLS solves of one _obir call never exceeds the
\* iteration cap MaxOuterIter, warmup solves included.
C3_SolvesBounded == ob.nsolves <= MaxOuterIter

NonNegative(P) == \A i \in DOMAIN P : QLe(QInt(0), P[i])

\* C4: when nonnegativity or obir is set, every entry of the returned P is
\* non-negative, with and without renormalization.
C4_ReturnedNonNegative ==
    (pc = "done" /\ (nonnegativity \/ obir)) => NonNegative(ret.Pfit)

\* C5 as stated: with the noise target zero, alpha has been inflated at
\* least once when the loop is in the refining phase.
C5_InflatesBeforeRefining ==
    (ob.active /\ ob.noiselevelaim = 0 /\ ob.Iteration > 1) => ob.Counter > 1

\* C5 amended: with the noise target zero the warmup never inflates alpha;
\* the first solve leaves alpha and the normal equations as they were built
\* and moves the loop to the refining phase.
C5_ZeroTargetNeverInflates ==
    (ob.active /\ ob.noiselevelaim = 0) =>
        /\ ob.Counter = 1
        /\ ob.alpha = alpha.val
        /\ ob.KtKreg = KtKreg
        /\ ob.nsolves >= 1 => ob.Iteration >= 2

C5_Witness ==
    /\ ob.active
    /\ ob.noiselevelaim = 0
    /\ ob.nsolves = 1
    /\ ob.Iteration = 2
    /\ VarN2(VecSub(MatVec(K, ob.Pfit), V)) = 0

\* the structure built by the uncertainty step, before any rebinding
RawPuq == [Puq EXCEPT !.ci = MethodCi]

\* C6: with renormalize and uqanalysis, ci(p) of the returned structure is
\* the query of the structure as built, divided by the constant that divided
\* the returned P; one call evaluates the original query once and the
\* rebound query once.
C6_CiRebound ==
    (pc \in {"gof", "done"} /\ renormalize /\ uqanalysis) =>
        /\ Pnorm = trapz(Puq.mean, r)
        /\ Pfit = renorm(Puq.mean, Pnorm)
        /\ \A p \in Coverages :
             LET c == ci(p) IN
             /\ c.ok
             /\ c.val = ci_div(uqst_ci(RawPuq, p), Pnorm)
             /\ c.raw = 1
             /\ c.rebound = 1

C6_Witness ==
    /\ pc = "done"
    /\ renormalize
    /\ uqanalysis
    /\ Pnorm = QInt(2)
    /\ covmat[1][1] > 0
    /\ ci(95).val # uqst_ci(RawPuq, 95)

\* C7: for the returned, rebound structure the 50% interval lies within the
\* 95% interval and both lower limits respect the lower bound zero.
C7_NestedAndClipped ==
    (pc = "done" /\ renormalize /\ uqanalysis) =>
        LET c50 == ci(50).val
            c95 == ci(95).val
        IN  \A i \in DOMAIN Puq.mean :
              /\ QLe(c95[i][1], c50[i][1])
              /\ QLe(c50[i][2], c95[i][2])
              /\ QLe(Puq.lb[i], c95[i][1])
              /\ QLe(Puq.lb[i], c50[i][1])

\* trace of H restricted to the rows and columns of one subset
RestrictedTrace(H, S) == QSumTo([i \in 1..Cardinality(S) |-> H[Nth(S, i)][Nth(S, i)]], Cardinality(S))

\* C8: each subset's Ndof is its length minus the trace of the hat matrix
\* restricted to that subset.
C8_NdofRestricted ==
    pc = "done" =>
        \A k \in DOMAIN subsets :
            stats.items[k].Ndof =
                QSub(QInt(Cardinality(subsets[k])), RestrictedTrace(hat(K, KtKreg), subsets[k]))


\* the residual K@P - V of a solver answer x
Residual(x) == VecSub(MatVec(K, x), V)

\* the step is one pass through the loop body that solved for x
SolvedFor(x) ==
    /\ ob'.nsolves = ob.nsolves + 1
    /\ ob'.subGrad = VecAdd(ob.subGrad, MatVec(WeightedT(weights, K), Residual(x)))

\* C9: a warmup pass (Iteration = 1) whose residual is below the noise
\* target replaces alpha by alpha*2^Counter, increments Counter, rebuilds
\* KtKreg and KtV with the new alpha and leaves Iteration at 1; any other
\* warmup pass leaves alpha, Counter and the normal equations alone and
\* advances Iteration to 2.  In the refining phase alpha never changes.
C9_Warmup ==
    [][ (pc = "obir" /\ pc' = "obir" /\ obir_looping(ob)) =>
          IF ob.Iteration = 1
          THEN \E x \in nnls(ob.KtKreg, ob'.KtVsg) :
                 /\ SolvedFor(x)
                 /\ ob'.Pfit = x
                 /\ IF AimAboveStd(ob.noiselevelaim, Residual(x))
                    THEN /\ ob'.alpha = ob.alpha * Pow2(ob.Counter)
                         /\ ob'.Counter = ob.Counter + 1
                         /\ ob'.KtKreg = lsqcomponents(V, K, L, ob'.alpha, weights).KtKreg
                         /\ ob'.KtV = lsqcomponents(V, K, L, ob'.alpha, weights).KtV
                         /\ ob'.Iteration = 1
                    ELSE /\ ob'.alpha = ob.alpha
                         /\ ob'.Counter = ob.Counter
                         /\ ob'.KtKreg = ob.KtKreg
                         /\ ob'.KtV = ob.KtV
                         /\ ob'.Iteration = 2
          ELSE /\ ob'.alpha = ob.alpha
               /\ ob'.Counter = ob.Counter
               /\ ob'.KtKreg = ob.KtKreg
               /\ ob'.KtV = ob.KtV ]_vars

\* two inflations (alpha*2, then alpha*2*4), then refining entered
C9_Witness ==
    /\ ob.active
    /\ ob.Counter = 3
    /\ ob.alpha = 8 * alpha.val
    /\ ob.Iteration = 2

\* C10: a refining pass (Iteration > 1) that is semiconverged stops the loop
\* with the P of that solve; any other advances Iteration by one and, with
\* stopDivergent and diverged, stops with Pprev; Pprev is the P of the
\* immediately preceding solve.  The P of the stopped loop is what _obir
\* returns.
C10_Refining ==
    [][ /\ (pc = "obir" /\ pc' = "obir" /\ obir_looping(ob) /\ ob.Iteration > 1) =>
            /\ ob'.Pprev = ob.Pfit
            /\ \E x \in nnls(ob.KtKreg, ob'.KtVsg) :
                 /\ SolvedFor(x)
                 /\ IF AimAboveStd(ob.noiselevelaim, Residual(x))
                    THEN /\ ob'.exit = "semiconverged"
                         /\ ob'.Pfit = x
                         /\ ob'.Iteration = ob.Iteration
                    ELSE /\ ob'.Iteration = ob.Iteration + 1
                         /\ IF stopDivergent /\ StdLess(Residual(ob.Pfit), Residual(x))
                            THEN ob'.exit = "diverged" /\ ob'.Pfit = ob.Pfit
                            ELSE ob'.exit = "none" /\ ob'.Pfit = x
        /\ (pc = "obir" /\ ob.exit # "none") =>
            /\ pc' \in {"obir", "uq"}
            /\ ob' = ob \/ pc' = "uq"
        /\ (pc = "obir" /\ pc' = "uq") => Pfit' = QVec(ob.Pfit) ]_vars

\* a refining pass stopped the loop on semi-convergence after an inflation
C10_Witness ==
    /\ ob.active
    /\ ob.exit = "semiconverged"
    /\ ob.Counter > 1
    /\ ob.Iteration = 2
    /\ ob.Pprev # ob.Pfit


\* C11: _obir returns only after semi-convergence, after a divergence halt,
\* or with Iteration above MaxOuterIter.  In the last case it returns the P
\* of the last solve, raises nothing and calls nothing further, and hands
\* back a vector of the same length as after semi-convergence.
C11_TerminalConditions ==
    [][ /\ (pc = "obir" /\ pc' = "uq") =>
            /\ ob'.exit \in {"semiconverged", "diverged", "cap"}
            /\ ob'.exit = "semiconverged" => (ob.exit = "semiconverged" /\ ob.semiconverged)
            /\ ob'.exit = "diverged" => (ob.exit = "diverged" /\ stopDivergent /\ ob.diverged)
            /\ ob'.exit = "cap" <=> (ob.exit = "none" /\ ob.Iteration > MaxOuterIter)
            /\ Pfit' = QVec(ob.Pfit)
            /\ Len(Pfit') = Len(r)
            /\ err' = NoErr
            /\ called' = called
        /\ (pc = "obir" /\ pc' = "obir" /\ obir_looping(ob) /\ ob'.exit = "none") =>
            \E x \in nnls(ob.KtKreg, ob'.KtVsg) : SolvedFor(x) /\ ob'.Pfit = x
        /\ (pc = "obir" /\ pc' = "error") => (BadSolver /\ err' = KeyError(solver)) ]_vars

\* a run that hit the cap has returned a result to the caller
C11_Witness ==
    /\ pc = "done"
    /\ ob.exit = "cap"
    /\ err = NoErr
    /\ ret.Pfit = Pfit
    /\ Len(ret.Pfit) = Len(r)


\* C12: the subgradient accumulator starts as the zero vector of length M;
\* every pass through the loop, warmup and refining alike, solves with the
\* right-hand side KtV - subGrad of the values before the pass and adds
\* (weights*K.T)@(K@P - V) for the P it solved; a pass that inflates alpha
\* rebuilds KtKreg and KtV but keeps the accumulator.
C12_Subgradient ==
    [][ /\ (pc = "solve" /\ pc' = "obir") =>
            /\ ob'.subGrad = Zeros(Len(r))
            /\ ob'.nsolves = 0
        /\ (pc = "obir" /\ pc' = "obir" /\ obir_looping(ob)) =>
            /\ ob'.KtVsg = VecSub(ob.KtV, ob.subGrad)
            /\ \E x \in nnls(ob.KtKreg, ob'.KtVsg) :
                 /\ SolvedFor(x)
                 /\ (ob'.exit # "diverged") => ob'.Pfit = x
                 /\ ob'.subGrad =
                        VecAdd(ob.subGrad,
                               [j \in 1..Len(r) |->
                                  SumTo([i \in DOMAIN V |->
                                     weights[i] * K[i][j] * Residual(x)[i]], Len(V))])
        /\ (pc = "obir" /\ pc' = "obir" /\ ~obir_looping(ob)) => ob' = ob ]_vars

\* the accumulator carries two solves across an alpha inflation
C12_Witness ==
    /\ ob.active
    /\ ob.Counter = 2
    /\ ob.nsolves = 2
    /\ ob.KtVsg # ob.KtV
    /\ ob.subGrad # Zeros(Len(r))
    /\ weights # <<1, 1>>


\* the normal equations fitregmodel built before the solve
OwnComponents == lsqcomponents(V, K, L, alpha.val, weights)

\* C13: _obir starts from fitregmodel's alpha and never changes fitregmodel's
\* alpha, KtKreg or KtV, however often the warmup inflates its own alpha;
\* after an OBIR solve the penalty residual and Jacobian of _augment are
\* scaled by fitregmodel's alpha and every Ndof uses the hat matrix of
\* fitregmodel's KtKreg.
C13_InflationIsLocal ==
    [][ /\ (pc = "solve" /\ pc' = "obir") =>
            /\ ob'.alpha = alpha.val
            /\ ob'.KtKreg = KtKreg
        /\ (pc = "obir") =>
            /\ alpha' = alpha
            /\ KtKreg' = KtKreg
            /\ KtV' = KtV
        /\ (problem = "obir" /\ pc \notin {"start", "alpha", "assemble"}) =>
            /\ KtKreg = OwnComponents.KtKreg
            /\ KtV = OwnComponents.KtV
        /\ (problem = "obir" /\ pc = "uq" /\ pc' = "renorm" /\ uqanalysis) =>
            /\ res'.penalty.alpha = alpha.val
            /\ J'.penalty.alpha = alpha.val
        /\ (problem = "obir" /\ pc = "gof" /\ pc' = "done") =>
            \A k \in DOMAIN subsets :
                stats'.items[k].Ndof =
                    QSub(QInt(Cardinality(subsets[k])), trace(hat(K, OwnComponents.KtKreg))) ]_vars

\* a finished fit whose P was solved with an inflated alpha
C13_Witness ==
    /\ pc = "done"
    /\ problem = "obir"
    /\ uqanalysis
    /\ ob.alpha = 8 * alpha.val
    /\ ob.KtKreg # KtKreg
    /\ J.penalty.alpha = alpha.val

====
